---- MODULE Spec2Model ----
(***************************************************************************)
(* ws-hotel: rooms, membership tables, the per-connection adapter          *)
(* (struct Handler) and its relocation loop, from src/src/lib.rs.          *)
(*                                                                         *)
(* Every method of the type-erased room view (impl RoomAny for             *)
(* Mutex<Room<R>>) takes the room's mutex for its whole body.  add and     *)
(* remove are therefore single steps that need the mutex to be free; the   *)
(* three callbacks on_join / on_message / on_leave are split into a step   *)
(* that takes the mutex and builds the Context, steps of the user handler  *)
(* (identity, broadcast, broadcast_with) and a step that returns and drops *)
(* the guard.  The adapters of different connections run in parallel and   *)
(* are interleaved at the granularity of these steps; the events of one    *)
(* connection are handled one after the other.                             *)
(*                                                                         *)
(* Spec      : the listener and the adapters of NumConns connections.      *)
(* SpecTable : the membership table of one room on its own, driven         *)
(*             directly through RoomAny::add / remove / broadcast with     *)
(*             NumSenders senders.                                         *)
(***************************************************************************)
EXTENDS Naturals, Sequences, FiniteSets, TLC

\* connections accepted by the listener
NumConns == 2
\* rooms besides the lobby
NumRooms == 2
\* identity values are 0..MaxGuest
MaxGuest == 1
\* inbound frames dispatched over the whole run
MaxFrames == 2
\* senders offered to the table in SpecTable
NumSenders == 3

Conns == 1..NumConns
TableSenders == 1..NumSenders
Lobby == 0
Rooms == 0..NumRooms
Guests == 0..MaxGuest
DefaultGuest == 0
NoOne == 0
None == <<>>

VARIABLES
    members,    \* Room::members, per room: sequence of <<identity, sender>>
    room,       \* Handler::room, per connection
    pc,         \* position of each connection's adapter
    lock,       \* holder of each room's Mutex (NoOne when free)
    r,          \* relocate's `r`: pending Option<Relocation>, per connection
    target,     \* the (room, identity) bound by `while let Some(..) = r.take()`
    todo,       \* with_context's `todo`: the sender snapshot given to Context
    frames,     \* number of inbound frames dispatched so far
    strong,     \* strong count of each room's Arc (0: the room is freed)
    arrival,    \* history: per room, the current members in insertion order
    log,        \* history: per connection, origin and callbacks of the residency
    steps,      \* history: the adapter's steps for the event being handled
    erred,      \* history: an on_message of the member's stay in its room returned Err
    moved,      \* history: <<old room, target, identity>> of the relocation in progress
    sends       \* history: the send calls of the broadcast made by the last step

vars == <<members, room, pc, lock, r, target, todo, frames, strong, arrival,
         log, steps, erred, moved, sends>>

\* the second argument of on_leave: None on relocation, Some(..) on close
NoReason == 0
SomeReason == 1

Callbacks == {"on_message", "on_join", "relocate_on_leave", "close_on_leave"}

NoSends ==
    [made |-> FALSE, by |-> NoOne, room |-> Lobby, to |-> <<>>, failed |-> 0,
     ok |-> TRUE]

(***************************************************************************)
(* Membership table helpers                                                *)
(***************************************************************************)
Senders(ms) == [i \in 1..Len(ms) |-> ms[i][2]]

\* faulty variant: the predicate matches any entry
PositionAny(ms, s) == IF Len(ms) > 0 THEN 1 ELSE 0

\* Iterator::position(|(_, s)| s == sender): first matching index, 0 for None
Position(ms, s) ==
    IF \E i \in 1..Len(ms) : ms[i][2] = s
    THEN CHOOSE i \in 1..Len(ms) :
            /\ ms[i][2] = s
            /\ \A j \in 1..(i - 1) : ms[j][2] # s
    ELSE 0

\* faulty variant: nothing is removed
SwapRemoveNothing(ms, i) == ms

\* faulty variant: Vec::remove, which shifts the tail down
SwapRemoveShift(ms, i) ==
    [j \in 1..(Len(ms) - 1) |-> IF j < i THEN ms[j] ELSE ms[j + 1]]

\* Vec::swap_remove: the last element takes the place of the removed one
SwapRemove(ms, i) ==
    [j \in 1..(Len(ms) - 1) |-> IF j = i THEN ms[Len(ms)] ELSE ms[j]]

Push(ms, e) == Append(ms, e)

\* faulty variant: the snapshot misses the first entry
TodoTail(ms) == Tail(Senders(ms))

Todo(ms) == Senders(ms)

\* faulty variant: the first slot of the table is written
SetIdentityFirst(ms, s, g) ==
    [i \in 1..Len(ms) |-> IF i = 1 THEN <<g, ms[i][2]>> ELSE ms[i]]

\* *cx.identity() = g: the slot found by the sender's (token, connection id)
SetIdentity(ms, s, g) ==
    [i \in 1..Len(ms) |-> IF i = Position(ms, s) THEN <<g, ms[i][2]>> ELSE ms[i]]

\* faulty variant: the mutex is never waited for
FreeAlways(rm) == TRUE

Free(rm) == lock[rm] = NoOne

InRoom(s, rm) == \E i \in 1..Len(members[rm]) : members[rm][i][2] = s

RoomsOf(s) == {rm \in Rooms : InRoom(s, rm)}

IdentityOf(s, rm) == members[rm][Position(members[rm], s)][1]

\* history of a residency; consecutive on_message callbacks are recorded once
Record(l, callback) ==
    IF l[Len(l)] = callback /\ callback = "on_message" THEN l ELSE Append(l, callback)

Without(seq, s) == SelectSeq(seq, LAMBDA x : x # s)

Count(seq, s) == Cardinality({i \in 1..Len(seq) : seq[i] = s})

IsPrefix(a, b) == Len(a) <= Len(b) /\ SubSeq(b, 1, Len(a)) = a

\* the RoomRef and the Arc<dyn RoomAny> that listen keeps for the lobby
ListenerRefs(rm) == IF rm = Lobby THEN 2 ELSE 0

\* Weak::upgrade: Some(room) while the strong count is not zero
Upgrade(rm) == IF strong[rm] > 0 THEN <<rm>> ELSE None

Results ==
    {<<"Ok", None>>, <<"Err", None>>} \cup
    {<<"Ok", <<t, g>>>> : t \in Rooms, g \in Guests}

(***************************************************************************)
(* RoomAny::add and RoomAny::remove                                        *)
(***************************************************************************)
\* faulty variant: the supplied identity is dropped and the default stored
add_default(rm, s, g) ==
    /\ Free(rm)
    /\ members' = [members EXCEPT ![rm] = Push(@, <<DefaultGuest, s>>)]
    /\ arrival' = [arrival EXCEPT ![rm] = Append(@, s)]

\* faulty variant: the table is changed without taking the mutex
add_unlocked(rm, s, g) ==
    /\ members' = [members EXCEPT ![rm] = Push(@, <<g, s>>)]
    /\ arrival' = [arrival EXCEPT ![rm] = Append(@, s)]

add(rm, s, g) ==
    /\ Free(rm)
    /\ members' = [members EXCEPT ![rm] = Push(@, <<g, s>>)]
    /\ arrival' = [arrival EXCEPT ![rm] = Append(@, s)]

\* faulty variant: the entry is left in the table
remove_skipped(rm, s) ==
    /\ Free(rm)
    /\ UNCHANGED <<members, arrival>>

\* the member is present; the caller models the `expect` failure
remove(rm, s) ==
    /\ Free(rm)
    /\ members' = [members EXCEPT ![rm] = SwapRemove(@, Position(@, s))]
    /\ arrival' = [arrival EXCEPT ![rm] = Without(@, s)]

Init ==
    /\ members = [rm \in Rooms |-> <<>>]
    /\ room = [c \in Conns |-> Lobby]
    /\ pc = [c \in Conns |-> "new"]
    /\ lock = [rm \in Rooms |-> NoOne]
    /\ r = [c \in Conns |-> None]
    /\ target = [c \in Conns |-> None]
    /\ todo = [c \in Conns |-> <<>>]
    /\ frames = 0
    /\ strong = [rm \in Rooms |-> ListenerRefs(rm)]
    /\ arrival = [rm \in Rooms |-> <<>>]
    /\ log = [c \in Conns |-> <<>>]
    /\ moved = [c \in Conns |-> None]
    /\ steps = [c \in Conns |-> <<>>]
    /\ erred = [c \in Conns |-> FALSE]
    /\ sends = NoSends

(***************************************************************************)
(* listen: the factory closure run for each accepted connection            *)
(***************************************************************************)
\* faulty variant: the adapter is returned without lobby.add
listen_no_add(c) ==
    /\ pc[c] = "new"
    /\ room' = [room EXCEPT ![c] = Lobby]
    /\ pc' = [pc EXCEPT ![c] = "accepted"]
    /\ strong' = [strong EXCEPT ![Lobby] = @ + 1]
    /\ log' = [log EXCEPT ![c] = <<"listen">>]
    /\ sends' = NoSends
    /\ UNCHANGED <<members, arrival, lock, r, target, todo, frames, moved, steps, erred>>

listen(c) ==
    /\ pc[c] = "new"
    /\ add(Lobby, c, DefaultGuest)
    /\ room' = [room EXCEPT ![c] = Lobby]
    /\ pc' = [pc EXCEPT ![c] = "accepted"]
    /\ strong' = [strong EXCEPT ![Lobby] = @ + 1]
    /\ log' = [log EXCEPT ![c] = <<"listen">>]
    /\ sends' = NoSends
    /\ UNCHANGED <<lock, r, target, todo, frames, moved, steps, erred>>

(***************************************************************************)
(* Handler::on_open                                                        *)
(***************************************************************************)
\* faulty variant: on_open goes on to call on_join in the lobby
on_open_join(c) ==
    /\ pc[c] = "accepted"
    /\ pc' = [pc EXCEPT ![c] = "call_on_join"]
    /\ sends' = NoSends
    /\ UNCHANGED <<members, room, lock, r, target, todo, frames, strong, arrival,
                   log, steps, moved, erred>>

\* Ok(()) and nothing else
on_open(c) ==
    /\ pc[c] = "accepted"
    /\ pc' = [pc EXCEPT ![c] = "idle"]
    /\ sends' = NoSends
    /\ UNCHANGED <<members, room, lock, r, target, todo, frames, strong, arrival,
                   log, steps, moved, erred>>

(***************************************************************************)
(* Entering and leaving a callback: Mutex::lock + Room::with_context       *)
(***************************************************************************)
Enter(c, callback) ==
    /\ Free(room[c])
    /\ lock' = [lock EXCEPT ![room[c]] = c]
    /\ todo' = [todo EXCEPT ![c] = Todo(members[room[c]])]
    /\ pc' = [pc EXCEPT ![c] = callback]

Leave(c) ==
    /\ lock' = [lock EXCEPT ![room[c]] = NoOne]
    /\ todo' = [todo EXCEPT ![c] = <<>>]

(***************************************************************************)
(* Handler::on_message                                                     *)
(***************************************************************************)
on_message(c) ==
    /\ pc[c] = "idle"
    /\ frames < MaxFrames
    /\ Enter(c, "on_message")
    /\ frames' = frames + 1
    /\ log' = [log EXCEPT ![c] = Record(@, "on_message")]
    /\ sends' = NoSends
    /\ UNCHANGED <<members, room, r, target, arrival, moved, strong, steps, erred>>

\* faulty variant: the relocation holds no strong reference to its target
Returned_weak(c, res) ==
    IF res[2] = None \/ Upgrade(res[2][1]) # None
    THEN UNCHANGED <<members, arrival, strong>>
    ELSE /\ members' = [members EXCEPT ![res[2][1]] = <<>>]
         /\ arrival' = [arrival EXCEPT ![res[2][1]] = <<>>]
         /\ UNCHANGED strong

\* The value a callback returns.  For Some(Relocation::new(&room, identity))
\* the handler holds a RoomRef to the target: an upgraded weak reference while
\* the target is alive, a Room::new (empty table) otherwise; Relocation::new
\* clones the Arc and the handler's own RoomRef is dropped at the return.
Returned(c, res) ==
    IF res[2] = None
    THEN UNCHANGED <<members, arrival, strong>>
    ELSE /\ strong' = [strong EXCEPT ![res[2][1]] = @ + 1]
         /\ IF Upgrade(res[2][1]) = None
            THEN /\ members' = [members EXCEPT ![res[2][1]] = <<>>]
                 /\ arrival' = [arrival EXCEPT ![res[2][1]] = <<>>]
            ELSE UNCHANGED <<members, arrival>>

\* faulty variant: an Err from on_message takes the member out of the room
on_message_return_evict(c) ==
    /\ pc[c] = "on_message"
    /\ \E res \in Results :
        /\ Leave(c)
        /\ IF res[1] = "Ok"
           THEN /\ Returned(c, res)
                /\ r' = [r EXCEPT ![c] = res[2]]
                /\ pc' = [pc EXCEPT ![c] = "relocate"]
                /\ erred' = erred
           ELSE /\ members' = [members EXCEPT ![room[c]] =
                                   SwapRemove(@, Position(@, c))]
                /\ arrival' = [arrival EXCEPT ![room[c]] = Without(@, c)]
                /\ r' = r
                /\ pc' = [pc EXCEPT ![c] = "failed"]
                /\ erred' = [erred EXCEPT ![c] = TRUE]
                /\ UNCHANGED strong
    /\ sends' = NoSends
    /\ UNCHANGED <<room, target, frames, log, moved, steps>>

\* Ok(r) continues with relocate(r); Err(e) is returned to the event loop
on_message_return(c) ==
    /\ pc[c] = "on_message"
    /\ \E res \in Results :
        /\ Leave(c)
        /\ Returned(c, res)
        /\ IF res[1] = "Ok"
           THEN /\ r' = [r EXCEPT ![c] = res[2]]
                /\ pc' = [pc EXCEPT ![c] = "relocate"]
                /\ erred' = erred
           ELSE /\ r' = r
                /\ pc' = [pc EXCEPT ![c] = "failed"]
                /\ erred' = [erred EXCEPT ![c] = TRUE]
    /\ sends' = NoSends
    /\ UNCHANGED <<room, target, frames, log, moved, steps>>

(***************************************************************************)
(* Context: what the user handler can do while the callback runs           *)
(***************************************************************************)
identity(c) ==
    /\ pc[c] \in Callbacks
    /\ \E g \in Guests :
        IF Position(members[room[c]], c) = 0
        THEN /\ pc' = [pc EXCEPT ![c] = "panic"]
             /\ members' = members
        ELSE /\ members' = [members EXCEPT ![room[c]] = SetIdentity(@, c, g)]
             /\ pc' = pc
    /\ sends' = NoSends
    /\ UNCHANGED <<room, lock, r, target, todo, frames, arrival, log, moved, strong, steps, erred>>

\* faulty variant: the remaining members are sent to after a failed send
SendAllContinue(c, rm, list) ==
    \E n \in 0..Len(list) : \E ok \in BOOLEAN :
        /\ ok => n = Len(list)
        /\ (n = 0) => ok /\ (Len(list) = 0)
        /\ sends' = [made |-> TRUE, by |-> c, room |-> rm,
                     to |-> list,
                     failed |-> IF ok THEN 0 ELSE n, ok |-> ok]

\* sender.send over `list`, collected into a Result: stops at the first Err.
\* `to` are the senders send was called on, `failed` the position of the one
\* whose send returned the Err (0 when none did), `ok` whether the result is Ok
SendAll(c, rm, list) ==
    \E n \in 0..Len(list) : \E ok \in BOOLEAN :
        /\ ok => n = Len(list)
        /\ (n = 0) => ok /\ (Len(list) = 0)
        /\ sends' = [made |-> TRUE, by |-> c, room |-> rm,
                     to |-> SubSeq(list, 1, n),
                     failed |-> IF ok THEN 0 ELSE n, ok |-> ok]

broadcast(c) ==
    /\ pc[c] \in Callbacks
    /\ SendAll(c, room[c], todo[c])
    /\ UNCHANGED <<members, room, pc, lock, r, target, todo, frames, arrival, log, moved, strong, steps, erred>>

broadcast_with(c) ==
    /\ pc[c] \in Callbacks
    /\ SendAll(c, room[c], Senders(members[room[c]]))
    /\ UNCHANGED <<members, room, pc, lock, r, target, todo, frames, arrival, log, moved, strong, steps, erred>>

(***************************************************************************)
(* Handler::relocate                                                       *)
(***************************************************************************)
\* self.room.remove(sender), then on to `next`
RemoveFrom(c, next) ==
    IF Position(members[room[c]], c) = 0
    THEN /\ Free(room[c])
         /\ pc' = [pc EXCEPT ![c] = "panic"]
         /\ UNCHANGED <<members, arrival, steps, erred>>
    ELSE /\ remove(room[c], c)
         /\ erred' = [erred EXCEPT ![c] = FALSE]
         /\ steps' = [steps EXCEPT ![c] = Append(@, <<"remove", room[c], 0>>)]
         /\ pc' = [pc EXCEPT ![c] = next]

relocate(c) ==
    /\ pc[c] = "relocate"
    /\ IF r[c] = None
       THEN /\ pc' = [pc EXCEPT ![c] = "idle"]
            /\ UNCHANGED <<lock, todo, r, target, log, moved, steps>>
       ELSE /\ target' = [target EXCEPT ![c] = r[c]]
            /\ steps' = [steps EXCEPT ![c] = << <<"on_leave", room[c], NoReason>> >>]
            /\ r' = [r EXCEPT ![c] = None]
            /\ moved' = [moved EXCEPT ![c] = <<room[c], r[c][1], r[c][2]>>]
            /\ Enter(c, "relocate_on_leave")
            /\ log' = [log EXCEPT ![c] = Record(@, "on_leave")]
    /\ sends' = NoSends
    /\ UNCHANGED <<members, room, frames, arrival, strong, erred>>

\* faulty variant: the sender is not removed from the old room
relocate_on_leave_return_no_remove(c) ==
    /\ pc[c] = "relocate_on_leave"
    /\ Leave(c)
    /\ pc' = [pc EXCEPT ![c] = "switch"]
    /\ sends' = NoSends
    /\ UNCHANGED <<members, room, r, target, frames, arrival, log, moved, strong, steps, erred>>

relocate_on_leave_return(c) ==
    /\ pc[c] = "relocate_on_leave"
    /\ Leave(c)
    /\ pc' = [pc EXCEPT ![c] = "remove"]
    /\ sends' = NoSends
    /\ UNCHANGED <<members, room, r, target, frames, arrival, log, moved, strong, steps, erred>>

relocate_remove(c) ==
    /\ pc[c] = "remove"
    /\ RemoveFrom(c, "switch")
    /\ sends' = NoSends
    /\ UNCHANGED <<room, lock, r, target, todo, frames, log, moved, strong>>

\* faulty variant: the reference to the old room is kept
relocate_switch_leak(c) ==
    /\ pc[c] = "switch"
    /\ room' = [room EXCEPT ![c] = target[c][1]]
    /\ steps' = [steps EXCEPT ![c] = Append(@, <<"switch", room'[c], 0>>)]
    /\ pc' = [pc EXCEPT ![c] = "add"]
    /\ sends' = NoSends
    /\ UNCHANGED <<members, lock, r, target, todo, frames, arrival, log, moved, strong, erred>>

\* self.room = room: the Arc of the relocation moves in, the old one is dropped
relocate_switch(c) ==
    /\ pc[c] = "switch"
    /\ room' = [room EXCEPT ![c] = target[c][1]]
    /\ strong' = [strong EXCEPT ![room[c]] = @ - 1]
    /\ steps' = [steps EXCEPT ![c] = Append(@, <<"switch", room'[c], 0>>)]
    /\ pc' = [pc EXCEPT ![c] = "add"]
    /\ sends' = NoSends
    /\ UNCHANGED <<members, lock, r, target, todo, frames, arrival, log, moved, erred>>

\* faulty variant: the loop does not call on_join
relocate_add_no_join(c) ==
    /\ pc[c] = "add"
    /\ add(room[c], c, target[c][2])
    /\ steps' = [steps EXCEPT ![c] = Append(@, <<"add", room[c], target[c][2]>>)]
    /\ target' = [target EXCEPT ![c] = None]
    /\ log' = [log EXCEPT ![c] = <<"relocate">>]
    /\ pc' = [pc EXCEPT ![c] = "idle"]
    /\ sends' = NoSends
    /\ UNCHANGED <<room, lock, r, todo, frames, moved, strong, erred>>

\* faulty variant: the member is put back into the lobby instead of self.room
relocate_add_lobby(c) ==
    /\ pc[c] = "add"
    /\ add(Lobby, c, target[c][2])
    /\ steps' = [steps EXCEPT ![c] = Append(@, <<"add", Lobby, target[c][2]>>)]
    /\ target' = [target EXCEPT ![c] = None]
    /\ log' = [log EXCEPT ![c] = <<"relocate">>]
    /\ pc' = [pc EXCEPT ![c] = "call_on_join"]
    /\ sends' = NoSends
    /\ UNCHANGED <<room, lock, r, todo, frames, moved, strong, erred>>

\* self.room.add(sender.clone(), identity)
relocate_add(c) ==
    /\ pc[c] = "add"
    /\ add(room[c], c, target[c][2])
    /\ steps' = [steps EXCEPT ![c] = Append(@, <<"add", room[c], target[c][2]>>)]
    /\ target' = [target EXCEPT ![c] = None]
    /\ log' = [log EXCEPT ![c] = <<"relocate">>]
    /\ pc' = [pc EXCEPT ![c] = "call_on_join"]
    /\ sends' = NoSends
    /\ UNCHANGED <<room, lock, r, todo, frames, moved, strong, erred>>

relocate_on_join(c) ==
    /\ pc[c] = "call_on_join"
    /\ Enter(c, "on_join")
    /\ steps' = [steps EXCEPT ![c] = Append(@, <<"on_join", room[c], 0>>)]
    /\ log' = [log EXCEPT ![c] = Record(@, "on_join")]
    /\ sends' = NoSends
    /\ UNCHANGED <<members, room, r, target, frames, arrival, moved, strong, erred>>

\* faulty variant: an Err from on_join takes the member out of the target again
relocate_on_join_return_undo(c) ==
    /\ pc[c] = "on_join"
    /\ \E res \in Results :
        /\ Leave(c)
        /\ IF res[1] = "Ok"
           THEN /\ Returned(c, res)
                /\ r' = [r EXCEPT ![c] = res[2]]
                /\ pc' = [pc EXCEPT ![c] = "relocate"]
                /\ moved' = [moved EXCEPT ![c] = None]
                /\ steps' = [steps EXCEPT ![c] = <<>>]
           ELSE /\ members' = [members EXCEPT ![room[c]] =
                                   SwapRemove(@, Position(@, c))]
                /\ arrival' = [arrival EXCEPT ![room[c]] = Without(@, c)]
                /\ r' = r
                /\ pc' = [pc EXCEPT ![c] = "failed"]
                /\ UNCHANGED <<moved, steps, strong>>
    /\ sends' = NoSends
    /\ UNCHANGED <<room, target, frames, log, erred>>

relocate_on_join_return(c) ==
    /\ pc[c] = "on_join"
    /\ \E res \in Results :
        /\ Leave(c)
        /\ Returned(c, res)
        /\ IF res[1] = "Ok"
           THEN /\ r' = [r EXCEPT ![c] = res[2]]
                /\ pc' = [pc EXCEPT ![c] = "relocate"]
                /\ moved' = [moved EXCEPT ![c] = None]
                /\ steps' = [steps EXCEPT ![c] = <<>>]
           ELSE /\ r' = r
                /\ pc' = [pc EXCEPT ![c] = "failed"]
                /\ UNCHANGED <<moved, steps>>
    /\ sends' = NoSends
    /\ UNCHANGED <<room, target, frames, log, erred>>

\* The Err that Handler::on_message returns reaches the event loop; the
\* adapter does not override on_error, and the event loop may deliver further
\* frames or the close afterwards.
on_error(c) ==
    /\ pc[c] = "failed"
    /\ pc' = [pc EXCEPT ![c] = "idle"]
    /\ moved' = [moved EXCEPT ![c] = None]
    /\ steps' = [steps EXCEPT ![c] = <<>>]
    /\ sends' = NoSends
    /\ UNCHANGED <<members, room, lock, r, target, todo, frames, strong, arrival, log, erred>>

(***************************************************************************)
(* Handler::on_close                                                       *)
(***************************************************************************)
on_close(c) ==
    /\ pc[c] = "idle"
    /\ Enter(c, "close_on_leave")
    /\ steps' = [steps EXCEPT ![c] = << <<"on_leave", room[c], SomeReason>> >>]
    /\ log' = [log EXCEPT ![c] = Record(@, "on_leave")]
    /\ sends' = NoSends
    /\ UNCHANGED <<members, room, r, target, frames, arrival, moved, strong, erred>>

\* faulty variant: on_close ends after on_leave
on_close_on_leave_return_no_remove(c) ==
    /\ pc[c] = "close_on_leave"
    /\ Leave(c)
    /\ pc' = [pc EXCEPT ![c] = "closed"]
    /\ sends' = NoSends
    /\ UNCHANGED <<members, room, r, target, frames, arrival, log, moved, strong, steps, erred>>

on_close_on_leave_return(c) ==
    /\ pc[c] = "close_on_leave"
    /\ Leave(c)
    /\ pc' = [pc EXCEPT ![c] = "close_remove"]
    /\ sends' = NoSends
    /\ UNCHANGED <<members, room, r, target, frames, arrival, log, moved, strong, steps, erred>>

on_close_remove(c) ==
    /\ pc[c] = "close_remove"
    /\ RemoveFrom(c, "closed")
    /\ sends' = NoSends
    /\ UNCHANGED <<room, lock, r, target, todo, frames, log, moved, strong>>

\* the event loop drops the adapter of a closed connection, and with it
\* Handler::room
drop(c) ==
    /\ pc[c] = "closed"
    /\ strong' = [strong EXCEPT ![room[c]] = @ - 1]
    /\ pc' = [pc EXCEPT ![c] = "dropped"]
    /\ sends' = NoSends
    /\ UNCHANGED <<members, room, lock, r, target, todo, frames, arrival, log, moved, steps, erred>>

Next ==
    \E c \in Conns :
        \/ listen(c)
        \/ on_open(c)
        \/ on_message(c)
        \/ on_message_return(c)
        \/ identity(c)
        \/ broadcast(c)
        \/ broadcast_with(c)
        \/ relocate(c)
        \/ relocate_on_leave_return(c)
        \/ relocate_remove(c)
        \/ relocate_switch(c)
        \/ relocate_add(c)
        \/ relocate_on_join(c)
        \/ relocate_on_join_return(c)
        \/ on_error(c)
        \/ on_close(c)
        \/ on_close_on_leave_return(c)
        \/ on_close_remove(c)
        \/ drop(c)

Spec == Init /\ [][Next]_vars

TypeOK ==
    /\ \A c \in Conns : room[c] \in Rooms
    /\ \A rm \in Rooms : lock[rm] \in Conns \cup {NoOne}
    /\ frames \in 0..MaxFrames
    /\ \A rm \in Rooms : strong[rm] \in Nat
    /\ \A c \in Conns : erred[c] \in BOOLEAN

(***************************************************************************)
(* SpecTable: the membership table of one room, driven through RoomAny     *)
(***************************************************************************)
table_add(rm, s, g) ==
    /\ \A other \in Rooms : ~InRoom(s, other)
    /\ add(rm, s, g)
    /\ sends' = NoSends
    /\ UNCHANGED <<room, pc, lock, r, target, todo, frames, log, moved, strong, steps, erred>>

table_remove(rm, s) ==
    /\ InRoom(s, rm)
    /\ remove(rm, s)
    /\ sends' = NoSends
    /\ UNCHANGED <<room, pc, lock, r, target, todo, frames, log, moved, strong, steps, erred>>

\* RoomAny::broadcast
table_broadcast(rm) ==
    /\ Free(rm)
    /\ SendAll(NoOne, rm, Senders(members[rm]))
    /\ UNCHANGED <<members, room, pc, lock, r, target, todo, frames, arrival, log, moved, strong, steps, erred>>

NextTable ==
    \/ \E s \in TableSenders, g \in Guests : table_add(Lobby, s, g)
    \/ \E s \in TableSenders : table_remove(Lobby, s)
    \/ table_broadcast(Lobby)

SpecTable == Init /\ [][NextTable]_vars

(***************************************************************************)
(* Properties                                                              *)
(***************************************************************************)
Live(c) == pc[c] \notin {"new", "closed", "dropped"}

\* between `self.room.remove(sender)` and `self.room.add(..)` of one loop turn
MidRelocation(c) == pc[c] \in {"switch", "add"}

\* C1 as stated: every accepted, still connected connection is a member of
\* exactly one room in every state, the states inside the relocation loop
\* included.
C1_ExactlyOneRoomAlways ==
    \A c \in Conns : Live(c) => Cardinality(RoomsOf(c)) = 1

\* C1 amended: a connection is a member of exactly one room in every state
\* except between the removal and the insertion of a relocation step (and
\* before it is accepted, and after on_close removed it), where it is a
\* member of no room.
C1_OneRoomExceptMidRelocation ==
    \A c \in Conns :
        Cardinality(RoomsOf(c)) =
            IF Live(c) /\ ~MidRelocation(c) THEN 1 ELSE 0

\* C1 witness: a relocation has removed the member from the old room and has
\* not yet inserted it into a different target.
C1_Witness ==
    \E c \in Conns :
        /\ pc[c] = "add"
        /\ room[c] # moved[c][1]
        /\ RoomsOf(c) = {}

\* C2: in every state a sender is in the membership table of at most one
\* room.
C2_AtMostOneRoom ==
    \A c \in Conns : Cardinality(RoomsOf(c)) <= 1

\* C2 witness: a member has just been inserted into a target different from
\* the old room, while another connection is a member of some room.
C2_Witness ==
    \E c, d \in Conns :
        /\ c # d
        /\ pc[c] = "call_on_join"
        /\ moved[c][1] # room[c]
        /\ RoomsOf(c) = {room[c]}
        /\ RoomsOf(d) # {}

\* C3: no membership table holds two entries with the same sender.
C3_NoDuplicateSender ==
    \A rm \in Rooms : \A i, j \in 1..Len(members[rm]) :
        i # j => members[rm][i][2] # members[rm][j][2]

\* C3 witness: a member has been relocated into the room it was already in,
\* next to another member.
C3_Witness ==
    \E c \in Conns :
        /\ pc[c] = "call_on_join"
        /\ moved[c][1] = room[c]
        /\ Len(members[room[c]]) >= 2

\* C4: a broadcast made from a callback that returns success has called send
\* exactly once on every sender of the room's table, the caller included, and
\* on no other sender.
C4_BroadcastCoverage ==
    (sends.made /\ sends.ok /\ sends.by # NoOne) =>
        \A s \in Conns :
            Count(sends.to, s) = IF InRoom(s, sends.room) THEN 1 ELSE 0

\* C4 witness: a successful broadcast in a room with two members, made by
\* one of them.
C4_Witness ==
    /\ sends.made /\ sends.ok
    /\ Len(sends.to) = 2
    /\ Count(sends.to, sends.by) = 1

\* C5 as stated: a broadcast visits the current members in the order in which
\* they were inserted, whatever was removed before.
C5_BroadcastInInsertionOrder ==
    sends.made => IsPrefix(sends.to, arrival[sends.room])

\* C5 amended: a broadcast visits the members in table order; an insertion
\* appends to the table, and a removal moves the last entry into the vacated
\* position and leaves every other entry where it was.
C5_TableOrder ==
    [][\A rm \in Rooms :
        LET old == Senders(members[rm])
            new == Senders(members'[rm])
        IN  /\ Len(new) > Len(old) => SubSeq(new, 1, Len(old)) = old
            /\ Len(new) < Len(old) =>
                  \A i \in 1..Len(new) :
                      new[i] # old[i] => new[i] = old[Len(old)]
            /\ (sends'.made /\ sends'.room = rm) => IsPrefix(sends'.to, new)
      ]_vars

\* C5 witness: a complete broadcast in a room whose table order is no longer
\* the insertion order.
C5_Witness ==
    /\ sends.made /\ sends.ok
    /\ Len(sends.to) >= 2
    /\ sends.to # arrival[sends.room]

\* C6 as stated: when the adapter calls the target's on_join, the member is
\* absent from the old room, present in the target, and its identity there is
\* the supplied one.
C6_AbsentFromOldRoom ==
    \A c \in Conns :
        pc[c] = "call_on_join" =>
            /\ ~InRoom(c, moved[c][1])
            /\ InRoom(c, moved[c][2])
            /\ IdentityOf(c, moved[c][2]) = moved[c][3]

\* C6 amended: when the adapter calls the target's on_join, the member is
\* present in the target with the supplied identity, the target is the
\* adapter's current room, and the member is absent from the old room unless
\* the target is the old room.
C6_RelocationResult ==
    \A c \in Conns :
        pc[c] = "call_on_join" =>
            /\ moved[c][1] # moved[c][2] => ~InRoom(c, moved[c][1])
            /\ room[c] = moved[c][2]
            /\ InRoom(c, moved[c][2])
            /\ IdentityOf(c, moved[c][2]) = moved[c][3]

\* C6 witness: a relocation into another room with a non-default identity
\* has been applied.
C6_Witness ==
    \E c \in Conns :
        /\ pc[c] = "call_on_join"
        /\ moved[c][1] # moved[c][2]
        /\ moved[c][3] # DefaultGuest

\* C7 as stated: in every residency, the initial one in the lobby included,
\* an on_join precedes every on_message, and no callback follows on_leave.
C7_JoinBeforeEveryMessage ==
    \A c \in Conns : \A i \in 1..Len(log[c]) :
        /\ log[c][i] = "on_message" =>
              \E j \in 1..(i - 1) : log[c][j] = "on_join"
        /\ log[c][i] = "on_leave" => i = Len(log[c])

\* C7 amended: in a residency begun by a relocation on_join is the first
\* callback, so it precedes every on_message; in the initial lobby residency
\* no on_join fires; in both, on_leave is the last callback.
C7_ResidencyOrder ==
    \A c \in Conns : pc[c] # "new" =>
        /\ log[c][1] \in {"listen", "relocate"}
        /\ \A i \in 2..Len(log[c]) :
            /\ log[c][i] \in {"on_join", "on_message", "on_leave"}
            /\ log[c][i] = "on_join" => i = 2 /\ log[c][1] = "relocate"
            /\ log[c][i] = "on_message" =>
                  (log[c][1] = "relocate" => log[c][2] = "on_join")
            /\ log[c][i] = "on_leave" => i = Len(log[c])

\* C7 witness: a residency begun by a relocation has seen on_join, on_message
\* and on_leave.
C7_Witness ==
    \E c \in Conns :
        log[c] = <<"relocate", "on_join", "on_message", "on_leave">>

Executing(rm) == {c \in Conns : pc[c] \in Callbacks /\ room[c] = rm}

\* C8: at most one handler callback is executing in a room at any time.
C8_OneCallbackPerRoom ==
    \A rm \in Rooms : Cardinality(Executing(rm)) <= 1

\* C8 witness: a callback is executing in a room while the adapter of another
\* connection is about to dispatch a callback into the same room.
C8_Witness ==
    \E c, d \in Conns :
        /\ c # d
        /\ pc[c] = "on_message"
        /\ pc[d] = "call_on_join"
        /\ room[c] = room[d]

\* C9 as stated: at any time the room a connected adapter references contains
\* an entry with the adapter's sender.
C9_AdapterInItsRoomAlways ==
    \A c \in Conns : Live(c) => InRoom(c, room[c])

\* C9 amended: the room a connected adapter references contains an entry with
\* the adapter's sender, except between the removal and the insertion of a
\* relocation step, where it does not.
C9_AdapterInItsRoomExceptMidRelocation ==
    \A c \in Conns :
        InRoom(c, room[c]) <=> (Live(c) /\ ~MidRelocation(c))

\* C9 witness: an adapter that was relocated out of the lobby is at rest in
\* its new room, which holds its entry.
C9_Witness ==
    \E c \in Conns :
        /\ pc[c] = "idle"
        /\ room[c] # Lobby
        /\ InRoom(c, room[c])

\* C10 as stated: no callback of another connection executes in the old room
\* between c's on_leave and c's removal, nor in the target between c's
\* insertion and c's on_join.
C10_NoCallbackBetweenSteps ==
    \A c, d \in Conns :
        (c # d /\ pc[c] \in {"remove", "call_on_join"} /\ room[d] = room[c])
            => pc[d] \notin Callbacks

\* C10 amended: each step of a relocation is atomic: while a callback is
\* executing in a room, no member is removed from or inserted into that room
\* (between the steps the mutex is free and other callbacks may run).
C10_TableFixedDuringCallback ==
    [][\A rm \in Rooms :
        Executing(rm) # {} => Senders(members'[rm]) = Senders(members[rm])
      ]_vars

\* C10 witness: after c's on_leave and before c's removal, another
\* connection's callback is executing in the same room and its Context lists
\* c among the members.
C10_Witness ==
    \E c, d \in Conns :
        /\ c # d
        /\ pc[c] = "remove"
        /\ pc[d] \in Callbacks
        /\ room[d] = room[c]
        /\ Count(todo[d], c) = 1


(***************************************************************************)
(* C11                                                                     *)
(***************************************************************************)
\* the adapter of c exists and owns Handler::room
HasAdapter(c) == pc[c] \notin {"new", "dropped"}

\* c carries a Relocation whose Arc has not yet moved into Handler::room
CarriesTo(c, rm) ==
    \/ r[c] # None /\ r[c][1] = rm
    \/ pc[c] \in {"relocate_on_leave", "remove", "switch"} /\ target[c][1] = rm

\* number of strong references to rm that the program holds
Holders(rm) ==
    ListenerRefs(rm)
    + Cardinality({c \in Conns : HasAdapter(c) /\ room[c] = rm})
    + Cardinality({c \in Conns : CarriesTo(c, rm)})

\* C11: a weak reference to a room upgrades to the room exactly while some
\* strong reference to it is still held (the strong count is the number of
\* holders), and yields nothing once the last holder has released it.
C11_WeakReferenceSoundness ==
    \A rm \in Rooms :
        /\ strong[rm] = Holders(rm)
        /\ (Upgrade(rm) = None) <=> (Holders(rm) = 0)

\* a room other than the lobby was occupied, its last holder was dropped and
\* upgrading a weak reference to it now yields nothing
C11_Witness ==
    \E c \in Conns : \E rm \in Rooms \ {Lobby} :
        /\ pc[c] = "dropped"
        /\ room[c] = rm
        /\ Upgrade(rm) = None

(***************************************************************************)
(* C19                                                                     *)
(***************************************************************************)
\* C19: a member of a room's table belongs to a connection whose adapter
\* exists and holds a strong reference to that room, so a room with members
\* is never freed.
C19_MembersKeepRoomAlive ==
    \A c \in Conns : \A rm \in Rooms :
        InRoom(c, rm) => /\ HasAdapter(c)
                         /\ room[c] = rm
                         /\ Upgrade(rm) = <<rm>>

\* a room other than the lobby is kept alive by nothing but the adapter of
\* its only member
C19_Witness ==
    \E c \in Conns : \E rm \in Rooms \ {Lobby} :
        /\ InRoom(c, rm)
        /\ Len(members[rm]) = 1
        /\ strong[rm] = 1
        /\ pc[c] = "idle"


(***************************************************************************)
(* C12                                                                     *)
(***************************************************************************)
\* the steps of one turn of relocate's loop, for m = <<old room, target, identity>>
RelocationSteps(m) ==
    << <<"on_leave", m[1], NoReason>>,
       <<"remove", m[1], 0>>,
       <<"switch", m[2], 0>>,
       <<"add", m[2], m[3]>>,
       <<"on_join", m[2], 0>> >>

\* how many of them the adapter has made when it is at position p
StepsMade(p) ==
    CASE p \in {"relocate_on_leave", "remove"} -> 1
      [] p = "switch" -> 2
      [] p = "add" -> 3
      [] p = "call_on_join" -> 4
      [] p \in {"on_join", "failed"} -> 5

Relocating(c) ==
    pc[c] \in {"relocate_on_leave", "remove", "switch", "add", "call_on_join", "on_join"}

\* C12: the steps the adapter has made for the relocation it is applying are
\* an initial part of: on_leave without reason in the old room, removal from
\* the old room, switch to the target, insertion into the target with the new
\* identity, on_join in the target; the adapter's position tells how many.
C12_RelocationStepOrder ==
    \A c \in Conns :
        /\ Relocating(c) => moved[c] # None
        /\ (moved[c] # None /\ pc[c] # "panic") =>
               /\ IsPrefix(steps[c], RelocationSteps(moved[c]))
               /\ Len(steps[c]) = StepsMade(pc[c])

\* the second link of a chain started by the only frame so far, relocating
\* into the room the member is already in, has reached on_join
C12_Witness ==
    \E c \in Conns :
        /\ frames = 1
        /\ \A d \in Conns \ {c} : pc[d] = "new"
        /\ pc[c] = "on_join"
        /\ moved[c] # None
        /\ moved[c][1] # Lobby
        /\ moved[c][1] = moved[c][2]
        /\ Len(steps[c]) = 5


(***************************************************************************)
(* C13                                                                     *)
(***************************************************************************)
\* the steps of Handler::on_close in room rm
CloseSteps(rm) ==
    << <<"on_leave", rm, SomeReason>>,
       <<"remove", rm, 0>> >>

Closing(c) == pc[c] \in {"close_on_leave", "close_remove", "closed", "dropped"}

C14_InitialLobbyEntry ==
    \A c \in Conns :
        /\ pc[c] = "new" => \A rm \in Rooms : ~InRoom(c, rm)
        /\ (pc[c] \in {"accepted", "idle"} /\ log[c] = <<"listen">>) =>
               /\ room[c] = Lobby
               /\ InRoom(c, Lobby)
               /\ IdentityOf(c, Lobby) = DefaultGuest
        /\ pc[c] = "accepted" => log[c] = <<"listen">>
        /\ (log[c] # <<>> /\ log[c][1] = "listen") =>
               \A i \in 1..Len(log[c]) : log[c][i] # "on_join"

\* the first callback of a connection is an on_message in the lobby, where it
\* still has the default identity next to a member whose identity was changed
C14_Witness ==
    \E c \in Conns : \E d \in Conns \ {c} :
        /\ pc[c] = "on_message"
        /\ log[c] = <<"listen", "on_message">>
        /\ IdentityOf(c, Lobby) = DefaultGuest
        /\ InRoom(d, Lobby)
        /\ IdentityOf(d, Lobby) # DefaultGuest


(***************************************************************************)
(* C15                                                                     *)
(***************************************************************************)
\* on_join has returned an Err for the relocation recorded in moved
JoinFailed(c) == pc[c] = "failed" /\ moved[c] # None

\* C15 as stated: after an error from on_join the member is in the target's
\* table with the identity the relocation supplied.
C15_SuppliedIdentityAfterError ==
    \A c \in Conns :
        JoinFailed(c) =>
            /\ InRoom(c, moved[c][2])
            /\ IdentityOf(c, moved[c][2]) = moved[c][3]

\* C15: after an error from on_join the loop has stopped behind its five
\* steps, the member is in the target's table and in no other, the adapter's
\* room is the target and no further relocation is pending; the identity was
\* the supplied one when on_join was called.
C15_ErrorFromOnJoin ==
    \A c \in Conns :
        /\ JoinFailed(c) =>
               /\ steps[c] = RelocationSteps(moved[c])
               /\ room[c] = moved[c][2]
               /\ RoomsOf(c) = {moved[c][2]}
               /\ r[c] = None
               /\ target[c] = None
        /\ pc[c] = "call_on_join" =>
               /\ InRoom(c, moved[c][2])
               /\ IdentityOf(c, moved[c][2]) = moved[c][3]

\* on_join failed in a room other than the one the member came from, and the
\* member has the supplied, non-default identity there
C15_Witness ==
    \E c \in Conns :
        /\ JoinFailed(c)
        /\ moved[c][1] # moved[c][2]
        /\ moved[c][3] # DefaultGuest
        /\ IdentityOf(c, moved[c][2]) = moved[c][3]
        /\ ~InRoom(c, moved[c][1])


(***************************************************************************)
(* C16                                                                     *)
(***************************************************************************)
\* C16: when a send of a broadcast fails, send has been called once on each
\* member up to the failing one, in table order, on no member after it, and
\* the result of the broadcast is the error; a broadcast whose result is Ok
\* had no failing send.
C16_BroadcastStopsAtFailure ==
    sends.made =>
        /\ sends.ok <=> sends.failed = 0
        /\ ~sends.ok =>
               /\ sends.failed = Len(sends.to)
               /\ IsPrefix(sends.to, Senders(members[sends.room]))
               /\ \A i, j \in 1..Len(sends.to) :
                      sends.to[i] = sends.to[j] => i = j

\* the send to the first of two members failed and the second was not tried
C16_Witness ==
    /\ sends.made
    /\ ~sends.ok
    /\ sends.failed = 1
    /\ Len(sends.to) = 1
    /\ Len(members[sends.room]) = 2


(***************************************************************************)
(* C17                                                                     *)
(***************************************************************************)
\* the adapter of c is about to dispatch a callback into room[c], is inside
\* one, or is about to call remove on room[c]
Dispatching(c) ==
    \/ pc[c] \in {"idle", "call_on_join", "remove", "close_remove"}
    \/ pc[c] \in Callbacks
    \/ pc[c] = "relocate" /\ r[c] # None

\* C17: whenever the adapter dispatches on_join, on_message or on_leave into
\* its room, or calls remove on it, its sender is in that room's table, so
\* neither `expect` of the member lookup ever fails.
C17_LookupsNeverFail ==
    \A c \in Conns :
        /\ pc[c] # "panic"
        /\ Dispatching(c) => Position(members[room[c]], c) # 0

\* the adapter is about to remove, on close, a sender that is the second entry
\* of the table of a room other than the lobby
C17_Witness ==
    \E c \in Conns :
        /\ pc[c] = "close_remove"
        /\ room[c] # Lobby
        /\ Position(members[room[c]], c) = 2


(***************************************************************************)
(* C18                                                                     *)
(***************************************************************************)
\* C18: as long as a connection stays in a room's table, its identity there
\* changes only in a step of a callback dispatched for that connection in
\* that room; callbacks of other connections and other members' insertion or
\* removal leave it as the connection's previous callback left it.
C18_IdentityIsolation ==
    [][\A c \in Conns : \A rm \in Rooms :
        LET before == members[rm]
            after == members'[rm]
        IN  (/\ Position(before, c) # 0
             /\ Position(after, c) # 0
             /\ after[Position(after, c)][1] # before[Position(before, c)][1])
            => /\ pc[c] \in Callbacks
               /\ room[c] = rm
               /\ lock[rm] = c
      ]_vars

\* a member that set its identity in an earlier on_message is idle while the
\* callback of another connection runs in the same room
C18_Witness ==
    \E c \in Conns : \E d \in Conns \ {c} :
        /\ pc[c] = "idle"
        /\ log[c] = <<"listen", "on_message">>
        /\ IdentityOf(c, Lobby) # DefaultGuest
        /\ pc[d] \in Callbacks
        /\ room[d] = Lobby
        /\ Position(members[Lobby], c) = 2


(***************************************************************************)
(* C20                                                                     *)
(***************************************************************************)
\* c is taken out of the table of its adapter's room by the step
LeavesRoom(c) == InRoom(c, room[c]) /\ Position(members'[room[c]], c) = 0

====
